---- MODULE Spec2Model ----
(***************************************************************************)
(* Event recommendation engine (src/.../src/app.js): calculateDistance and *)
(* getRecommendedEvents with its helpers (jaccard, the binary min-heap,    *)
(* the similarity counts, the cold-start prior, the diversity re-rank).    *)
(*                                                                         *)
(* Number conventions.  JavaScript numbers are IEEE doubles; the model     *)
(* computes in exact integer fixed point:                                  *)
(*   - scores and signal values are integers in units of 1/Scale;          *)
(*   - weights are in units of 1/WeightUnit (0.35 is 35);                  *)
(*   - popularity is in units of 1/PopUnit (0.25 is 1, 1.0 is 4);          *)
(*   - angles are in units of pi/4 (PI_UNITS), and coordinates lie on the  *)
(*     90-degree grid, where sin^2 and cos are exact;                      *)
(*   - a coordinate may also be NaN, +-Infinity, a finite double so large  *)
(*     that multiplying it by Math.PI overflows ("huge"), or no number.    *)
(* JavaScript values that the code type-tests carry a tag t.               *)
(***************************************************************************)
EXTENDS Integers, Sequences, FiniteSets, TLC

VARIABLES CONFIG, user, events, eventSimilarity, limit, result, pc,
          point1, point2, distance

vars == <<CONFIG, user, events, eventSimilarity, limit, result, pc,
          point1, point2, distance>>

(***************************************************************************)
(* Units and bounds                                                        *)
(***************************************************************************)
Scale == 1000 * 1000
WeightUnit == 10 * 10
PopUnit == 2 * 2

\* Bound: the longest event collection handed to getRecommendedEvents.
MaxEvents == 3
\* Bound: the small limits are -1 .. MaxLimit.
MaxLimit == 2

(***************************************************************************)
(* JavaScript values                                                       *)
(***************************************************************************)
Undefined == [t |-> "undefined"]
Null == [t |-> "null"]
Arr(s) == [t |-> "array", a |-> s]
Fin(n) == [t |-> "number", k |-> "fin", v |-> n]
NaN == [t |-> "number", k |-> "nan", v |-> 0]
Inf(s) == [t |-> "number", k |-> "inf", v |-> s]
\* a finite double of sign s and magnitude about 1e308
Huge(s) == [t |-> "number", k |-> "huge", v |-> s]
Loc(la, ln) == [t |-> "object", lat |-> la, lng |-> ln]

IsArray(x) == x.t = "array"
IsNumber(x) == x.t = "number"
\* Number.isFinite
IsFinite(x) == x.t = "number" /\ x.k \in {"fin", "huge"}

Min(a, b) == IF a < b THEN a ELSE b
Max(a, b) == IF a > b THEN a ELSE b
Range(s) == {s[i] : i \in 1..Len(s)}
\* Map.get(key) || 0
MapGet(m, key) == IF key \in DOMAIN m THEN m[key] ELSE 0
\* Map.set(key, (Map.get(key) || 0) + d)
MapAdd(m, key, d) ==
  [x \in DOMAIN m \cup {key} |-> IF x = key THEN MapGet(m, key) + d ELSE m[x]]
EmptyMap == [x \in {} |-> 0]

(***************************************************************************)
(* Configuration (app.js 25-53)                                            *)
(***************************************************************************)
CONFIG_INIT ==
  [weights |-> [pref |-> 35, sim |-> 30, geo |-> 20, pop |-> 15, cold |-> 10],
   distanceDecayKm |-> 1000,
   hardGeoCutoffKm |-> Null,
   diversity |-> [enabled |-> TRUE,
                  alpha |-> (8 * Scale) \div 100,
                  perCategoryCap |-> Fin(3)]]

\* Object.keys(CONFIG.weights), in insertion order
WeightKeys == <<"pref", "sim", "geo", "pop", "cold">>

(***************************************************************************)
(* Math helpers (app.js 58-88)                                             *)
(***************************************************************************)
EARTH_RADIUS_KM == 6371
\* Math.PI as an angle, in the model's angle unit (pi/4)
PI_UNITS == 4
\* Math.PI as a number: 355/113
PiNum == 355
PiDen == 113

\* toRad(deg) = (deg * Math.PI) / 180.  The product overflows to +-Infinity
\* for a huge finite double; NaN and +-Infinity pass through.
toRad(deg) ==
  CASE deg.k = "fin" -> Fin((deg.v * PI_UNITS) \div 180)
    [] deg.k = "huge" -> Inf(deg.v)
    [] OTHER -> deg

hasValidLocation(loc) ==
  /\ loc.t = "object"
  /\ IsNumber(loc.lat) /\ IsFinite(loc.lat)
  /\ IsNumber(loc.lng) /\ IsFinite(loc.lng)

\* jaccard(arrA, arrB), as a fixed-point value in 0..Scale
jaccard(arrA, arrB) ==
  IF ~IsArray(arrA) \/ ~IsArray(arrB) \/ Len(arrA.a) = 0 \/ Len(arrB.a) = 0
  THEN 0
  ELSE LET setA == Range(arrA.a)
           setB == Range(arrB.a)
           inter == Cardinality(setA \cap setB)
           union == Cardinality(setA) + Cardinality(setB) - inter
       IN IF union = 0 THEN 0 ELSE (inter * Scale) \div union

\* Math.exp(-n) in units of 1/Scale for whole n (0 from n = 15 on)
ExpNegTable ==
  <<367879, 135335, 49787, 18316, 6738, 2479, 912, 335, 123, 45, 17, 6, 2, 1>>
\* Math.exp(-d / d0), evaluated at whole multiples of d0
ExpNeg(d, d0) ==
  LET n == d \div d0
  IN IF n = 0 THEN Scale ELSE IF n <= Len(ExpNegTable) THEN ExpNegTable[n] ELSE 0

\* Faulty variant of proximityScoreFromKm: an unknown distance counts as distance 0
proximityScoreFromKm_UnknownIsNear(distanceKm, d0) ==
  IF ~IsFinite(distanceKm) THEN Scale
  ELSE ExpNeg(Max(0, distanceKm.v), d0)

\* proximityScoreFromKm(distanceKm, d0): distanceKm is a JavaScript number
proximityScoreFromKm(distanceKm, d0) ==
  IF ~IsFinite(distanceKm) THEN 0
  ELSE ExpNeg(Max(0, distanceKm.v), d0)

(***************************************************************************)
(* Double arithmetic on the model's numbers (IEEE 754 special cases)       *)
(***************************************************************************)
\* a - b.  Two huge doubles of the same sign are equal (difference 0); of
\* opposite signs the difference overflows.
JsSub(a, b) ==
  CASE a.k = "nan" \/ b.k = "nan" -> NaN
    [] a.k = "inf" /\ b.k = "inf" -> IF a.v = b.v THEN NaN ELSE a
    [] a.k = "inf" -> a
    [] b.k = "inf" -> Inf(-b.v)
    [] a.k = "huge" /\ b.k = "huge" -> IF a.v = b.v THEN Fin(0) ELSE Inf(a.v)
    [] a.k = "huge" -> a
    [] b.k = "huge" -> Huge(-b.v)
    [] OTHER -> Fin(a.v - b.v)

\* x / 2 for an angle
JsHalf(x) == IF x.k = "fin" THEN Fin(x.v \div 2) ELSE x

\* Math.sin(x) ** 2 in halves (0, 1/2, 1 are 0, 1, 2); x in units of pi/4
SinSq(x) ==
  IF x.k # "fin" THEN NaN
  ELSE LET j == x.v % PI_UNITS
       IN Fin(IF j = 0 THEN 0 ELSE IF j = 2 THEN 2 ELSE 1)

\* Math.cos(x) for x a whole multiple of pi/2
Cos(x) ==
  IF x.k # "fin" THEN NaN
  ELSE LET j == x.v % (2 * PI_UNITS)
       IN Fin(IF j = 0 THEN 1 ELSE IF j = PI_UNITS THEN -1 ELSE 0)

\* a + b * c * d, NaN if any operand is NaN (all operands finite otherwise)
JsMulAdd(a, b, c, d) ==
  IF a.k = "nan" \/ b.k = "nan" \/ c.k = "nan" \/ d.k = "nan" THEN NaN
  ELSE Fin(a.v + b.v * c.v * d.v)

\* 2 * Math.atan2(Math.sqrt(a), Math.sqrt(1 - a)) in units of pi/4, a in
\* halves; Math.sqrt of a negative number is NaN
TwoAtan2Sqrt(a) ==
  IF a.k # "fin" \/ a.v < 0 \/ a.v > 2 THEN NaN
  ELSE Fin(a.v * (PI_UNITS \div 2))

(***************************************************************************)
(* calculateDistance (app.js 184-198): kilometres, truncated to whole km   *)
(***************************************************************************)
calculateDistance(p1, p2) ==
  IF ~hasValidLocation(p1) \/ ~hasValidLocation(p2) THEN Inf(1)
  ELSE LET lat1 == toRad(p1.lat)
           lat2 == toRad(p2.lat)
           dLat == JsSub(lat2, lat1)
           dLng == toRad(JsSub(p2.lng, p1.lng))
           a == JsMulAdd(SinSq(JsHalf(dLat)), Cos(lat1), Cos(lat2),
                         SinSq(JsHalf(dLng)))
           c == TwoAtan2Sqrt(a)
       IN IF c.k # "fin" THEN NaN
          ELSE Fin((EARTH_RADIUS_KM * c.v * PiNum) \div (PI_UNITS * PiDen))

(***************************************************************************)
(* Tiny binary min-heap (app.js 93-135).  A heap is a sequence; the code's *)
(* 0-based index i is position i + 1.  Nodes:                              *)
(*   [score, distance, popularity, id, event]                              *)
(* where distance is whole km or Infinity and event is a reference to an   *)
(* event record: its position in the events array.                         *)
(***************************************************************************)
\* Infinity as a node distance: above every finite distance
Infinity == 2147483647

\* The identifiers "cafe_nfc" and "cafe_nfd" stand for the JavaScript strings
\* 'caf\u00e9' and 'cafe\u0301': two different strings that are canonically
\* equivalent, so that localeCompare returns 0 for them.
\* ids a and b under a.id > b.id / a.id < b.id: UTF-16 code unit order
CodeUnitRank(id) ==
  CASE id = "B2" -> 1 [] id = "a1" -> 2 [] id = "c3" -> 3
    [] id = "cafe_nfd" -> 4 [] id = "cafe_nfc" -> 5 [] id = "d4" -> 6
    [] OTHER -> 0
\* a.id.localeCompare(b.id): locale (ICU root) collation order
LocaleRank(id) ==
  CASE id = "a1" -> 1 [] id = "B2" -> 2 [] id = "c3" -> 3
    [] id = "cafe_nfd" -> 4 [] id = "cafe_nfc" -> 4 [] id = "d4" -> 5
    [] OTHER -> 0
localeCompare(a, b) == LocaleRank(a) - LocaleRank(b)

heapSwap(h, i, j) == [h EXCEPT ![i + 1] = h[j + 1], ![j + 1] = h[i + 1]]

\* Comparator for the MIN-heap: "less" means WORSE
heapLess(a, b) ==
  IF a.score # b.score THEN a.score < b.score
  ELSE IF a.distance # b.distance THEN a.distance > b.distance
  ELSE IF a.popularity # b.popularity THEN a.popularity < b.popularity
  ELSE CodeUnitRank(a.id) > CodeUnitRank(b.id)

RECURSIVE heapSiftUp(_, _)
heapSiftUp(h, i) ==
  IF i > 0
  THEN LET p == (i - 1) \div 2
       IN IF ~heapLess(h[i + 1], h[p + 1]) THEN h
          ELSE heapSiftUp(heapSwap(h, i, p), p)
  ELSE h

RECURSIVE heapSiftDown(_, _)
heapSiftDown(h, i) ==
  LET n == Len(h)
      l == 2 * i + 1
      r == 2 * i + 2
      s1 == IF l < n /\ heapLess(h[l + 1], h[i + 1]) THEN l ELSE i
      s == IF r < n /\ heapLess(h[r + 1], h[s1 + 1]) THEN r ELSE s1
  IN IF s = i THEN h ELSE heapSiftDown(heapSwap(h, i, s), s)

heapPush(h, node) == heapSiftUp(Append(h, node), Len(h))
\* Faulty variant of heapReplaceRoot: the new root is not sifted down
heapReplaceRoot_NoSift(h, node) == [h EXCEPT ![1] = node]
heapReplaceRoot(h, node) == heapSiftDown([h EXCEPT ![1] = node], 0)

\* "Better" comparator in final ranking order
betterThan(a, b) ==
  IF a.score # b.score THEN a.score > b.score
  ELSE IF a.distance # b.distance THEN a.distance < b.distance
  ELSE IF a.popularity # b.popularity THEN a.popularity > b.popularity
  ELSE CodeUnitRank(a.id) < CodeUnitRank(b.id)

(***************************************************************************)
(* Event accessors used throughout app.js                                  *)
(***************************************************************************)
\* Array.isArray(e.categories) ? e.categories : []
CategoriesOf(e) == IF IsArray(e.categories) THEN e.categories.a ELSE <<>>
\* typeof e.popularity === 'number' ? Math.max(0, Math.min(1, e.popularity)) : 0
PopularityOf(e) ==
  IF IsNumber(e.popularity) THEN Max(0, Min(PopUnit, e.popularity.v)) ELSE 0

(***************************************************************************)
(* Similarity counts (app.js 140-149)                                      *)
(***************************************************************************)
RECURSIVE CountSims(_, _, _)
\* for (const sid of sims) counts.set(sid, (counts.get(sid) || 0) + 1)
CountSims(counts, sims, j) ==
  IF j > Len(sims) THEN counts
  ELSE CountSims(MapAdd(counts, sims[j], 1), sims, j + 1)

RECURSIVE CountAttended(_, _, _, _)
\* for (const eid of attended) { ... }
CountAttended(counts, attended, sim, i) ==
  IF i > Len(attended) THEN counts
  ELSE LET eid == attended[i]
           sims == IF eid \in DOMAIN sim.m THEN sim.m[eid] ELSE Undefined
       IN IF ~IsArray(sims) THEN CountAttended(counts, attended, sim, i + 1)
          ELSE CountAttended(CountSims(counts, sims.a, 1), attended, sim, i + 1)

buildSimilarCounts(attended, sim) ==
  IF ~IsArray(attended) \/ Len(attended.a) = 0 \/ sim.t # "object"
  THEN EmptyMap
  ELSE CountAttended(EmptyMap, attended.a, sim, 1)

(***************************************************************************)
(* Category popularity prior (app.js 154-172), in units of 1/PopUnit       *)
(***************************************************************************)
RECURSIVE TallyCats(_, _, _, _)
\* for (const c of cats) tally.set(c, (tally.get(c) || 0) + pop)
TallyCats(tally, cats, pop, j) ==
  IF j > Len(cats) THEN tally
  ELSE TallyCats(MapAdd(tally, cats[j], pop), cats, pop, j + 1)

RECURSIVE TallyEvents(_, _, _)
TallyEvents(tally, evs, i) ==
  IF i > Len(evs) THEN tally
  ELSE TallyEvents(TallyCats(tally, CategoriesOf(evs[i]), PopularityOf(evs[i]), 1),
                   evs, i + 1)

buildCategoryPopularityMap(evs) == TallyEvents(EmptyMap, evs, 1)

RECURSIVE PriorSumFrom(_, _, _)
\* cats.reduce((s, c) => s + (popByCat.get(c) || 0), 0)
PriorSumFrom(cats, popByCat, j) ==
  IF j > Len(cats) THEN 0
  ELSE MapGet(popByCat, cats[j]) + PriorSumFrom(cats, popByCat, j + 1)
PriorSum(cats, popByCat) == PriorSumFrom(cats, popByCat, 1)

RECURSIVE MaxPriorFrom(_, _, _, _)
MaxPriorFrom(evs, popByCat, i, maxPrior) ==
  IF i > Len(evs) THEN maxPrior
  ELSE LET sum == PriorSum(CategoriesOf(evs[i]), popByCat)
       IN MaxPriorFrom(evs, popByCat, i + 1, IF sum > maxPrior THEN sum ELSE maxPrior)

computeMaxPriorAcrossEvents(evs, popByCat) == MaxPriorFrom(evs, popByCat, 1, 0)

(***************************************************************************)
(* getRecommendedEvents (app.js 208-333)                                   *)
(***************************************************************************)
\* limit is an integer of any magnitude, held as hi * 2^31 + lo, 0 <= lo < 2^31
Lim(h, l) == [t |-> "number", hi |-> h, lo |-> l]
\* the default of the parameter limit (app.js 208)
DefaultLimit == 5
Int32Min == -2147483647 - 1
\* limit <= 0
LimitNotPositive(lim) == lim.hi < 0 \/ (lim.hi = 0 /\ lim.lo = 0)
\* limit | 0: the low 32 bits of limit as a signed 32-bit integer
ToInt32(lim) == IF lim.hi % 2 = 0 THEN lim.lo ELSE lim.lo + Int32Min

\* a > b on doubles that are finite, infinite or NaN
JsGreater(a, b) ==
  CASE a.k = "nan" \/ b.k = "nan" -> FALSE
    [] a.k = "inf" -> a.v > 0 /\ ~(b.k = "inf" /\ b.v > 0)
    [] b.k = "inf" -> b.v < 0
    [] OTHER -> a.v > b.v

RECURSIVE SumActive_EveryWeight(_, _, _)
\* Faulty variant of SumActive: inactive weights are summed too
SumActive_EveryWeight(active, weights, i) ==
  IF i > Len(WeightKeys) THEN 0
  ELSE weights[WeightKeys[i]] + SumActive_EveryWeight(active, weights, i + 1)

RECURSIVE SumActive(_, _, _)
\* for (const key of Object.keys(CONFIG.weights)) if (active[key]) weightSum += ...
SumActive(active, weights, i) ==
  IF i > Len(WeightKeys) THEN 0
  ELSE (IF active[WeightKeys[i]] THEN weights[WeightKeys[i]] ELSE 0)
       + SumActive(active, weights, i + 1)

\* app.js 211-244: what is computed once per call, before the scan
Context(u, evs, sim) ==
  LET prefs == IF IsArray(u.preferences) THEN u.preferences ELSE Arr(<<>>)
      attended == IF IsArray(u.attendedEvents) THEN u.attendedEvents ELSE Arr(<<>>)
      hasPrefs == Len(prefs.a) > 0
      hasHistory == Len(attended.a) > 0
      hasGeo == hasValidLocation(u.location)
      coldStart == ~hasPrefs /\ ~hasHistory
      popByCat == IF coldStart THEN [t |-> "map", m |-> buildCategoryPopularityMap(evs)]
                  ELSE Null
      active == [pref |-> hasPrefs, sim |-> hasHistory, geo |-> hasGeo,
                 pop |-> TRUE, cold |-> coldStart]
      sum == SumActive(active, CONFIG.weights, 1)
  IN [prefs |-> prefs,
      attended |-> attended,
      attendedSet |-> Range(attended.a),
      hasPrefs |-> hasPrefs,
      hasHistory |-> hasHistory,
      hasGeo |-> hasGeo,
      coldStart |-> coldStart,
      similarCounts |-> buildSimilarCounts(attended, sim),
      popByCat |-> popByCat,
      maxPrior |-> IF coldStart THEN computeMaxPriorAcrossEvents(evs, popByCat.m) ELSE 0,
      active |-> active,
      weightSum |-> IF sum <= 0 THEN WeightUnit ELSE sum]

\* const k = Math.min(Math.max(0, limit | 0), events.length)
TopK(lim, evs) == Min(Max(0, ToInt32(lim)), Len(evs))

\* app.js 269-277: the distance of one event, and whether the hard cutoff drops it
DistanceKm(ctx, u, ev) ==
  IF ctx.hasGeo /\ hasValidLocation(ev.location)
  THEN calculateDistance(u.location, ev.location)
  ELSE Inf(1)

CutOff(ctx, u, ev) ==
  /\ ctx.hasGeo /\ hasValidLocation(ev.location)
  /\ IsFinite(CONFIG.hardGeoCutoffKm)
  /\ JsGreater(DistanceKm(ctx, u, ev), CONFIG.hardGeoCutoffKm)

\* Faulty variant of Skipped: the attended-event check is left out
Skipped_IgnoringAttended(ctx, u, ev) ==
  \/ ev.id = ""
  \/ CutOff(ctx, u, ev)

\* app.js 253-256, 274: the loop's three "continue"s
Skipped(ctx, u, ev) ==
  \/ ev.id = ""
  \/ ev.id \in ctx.attendedSet
  \/ CutOff(ctx, u, ev)

\* app.js 262: preference match
PrefScore(ctx, ev) ==
  IF ctx.hasPrefs THEN jaccard(ctx.prefs, Arr(CategoriesOf(ev))) ELSE 0

\* app.js 265-266: content similarity
SimScore(ctx, ev) ==
  LET simCount == MapGet(ctx.similarCounts, ev.id)
  IN IF ctx.hasHistory
     THEN Min(Scale, (simCount * Scale) \div Len(ctx.attended.a))
     ELSE 0

\* app.js 278: geo proximity
GeoScore(ctx, u, ev) ==
  IF ctx.active.geo
  THEN proximityScoreFromKm(DistanceKm(ctx, u, ev), CONFIG.distanceDecayKm)
  ELSE 0

\* app.js 281-285: cold-start prior
ColdScore(ctx, ev) ==
  IF ctx.coldStart /\ ctx.popByCat.t = "map"
  THEN IF ctx.maxPrior > 0
       THEN (PriorSum(CategoriesOf(ev), ctx.popByCat.m) * Scale) \div ctx.maxPrior
       ELSE 0
  ELSE 0

\* app.js 258-304: the heap node of event evs[ref]
ScoreNode(ctx, u, ev, ref) ==
  LET popularity == PopularityOf(ev)
      prefScore == PrefScore(ctx, ev)
      simScore == SimScore(ctx, ev)
      distanceKm == DistanceKm(ctx, u, ev)
      geoScore == GeoScore(ctx, u, ev)
      coldScore == ColdScore(ctx, ev)
      combined ==
          (IF ctx.active.pref THEN CONFIG.weights.pref * prefScore ELSE 0)
        + (IF ctx.active.sim THEN CONFIG.weights.sim * simScore ELSE 0)
        + (IF ctx.active.geo THEN CONFIG.weights.geo * geoScore ELSE 0)
        + (IF ctx.active.pop
           THEN CONFIG.weights.pop * (popularity * (Scale \div PopUnit)) ELSE 0)
        + (IF ctx.active.cold THEN CONFIG.weights.cold * coldScore ELSE 0)
  IN [score |-> combined \div ctx.weightSum,
      distance |-> IF IsFinite(distanceKm) THEN distanceKm.v ELSE Infinity,
      popularity |-> popularity,
      id |-> ev.id,
      event |-> ref]

\* Faulty variant of Offer: a full heap is never updated
Offer_NeverReplaces(heap, node, k) ==
  IF Len(heap) < k THEN heapPush(heap, node) ELSE heap

\* app.js 306-312: push while fewer than k, else replace a worse root
Offer(heap, node, k) ==
  IF Len(heap) < k THEN heapPush(heap, node)
  ELSE IF betterThan(node, heap[1]) THEN heapReplaceRoot(heap, node)
  ELSE heap

RECURSIVE Scan(_, _, _, _, _)
\* the heap after the loop of app.js 252-313 has processed evs[1..i]
Scan(ctx, u, evs, k, i) ==
  IF i = 0 THEN <<>>
  ELSE LET heap == Scan(ctx, u, evs, k, i - 1)
       IN IF Skipped(ctx, u, evs[i]) THEN heap
          ELSE Offer(heap, ScoreNode(ctx, u, evs[i], i), k)

\* Faulty variant of SortCompare: the score difference is taken the wrong way round
SortCompare_ScoreAscending(a, b) ==
  IF b.score # a.score THEN a.score - b.score
  ELSE IF a.distance # b.distance THEN a.distance - b.distance
  ELSE IF b.popularity # a.popularity THEN b.popularity - a.popularity
  ELSE localeCompare(a.id, b.id)

\* the comparator of app.js 318-323
SortCompare(a, b) ==
  IF b.score # a.score THEN b.score - a.score
  ELSE IF a.distance # b.distance THEN a.distance - b.distance
  ELSE IF b.popularity # a.popularity THEN b.popularity - a.popularity
  ELSE localeCompare(a.id, b.id)

RECURSIVE InsertSorted(_, _, _)
\* node inserted after the last element of the sorted prefix that does not
\* compare greater than it (Array.prototype.sort is stable)
InsertSorted(sorted, node, j) ==
  IF j = 0 \/ SortCompare(sorted[j], node) <= 0
  THEN SubSeq(sorted, 1, j) \o <<node>> \o SubSeq(sorted, j + 1, Len(sorted))
  ELSE InsertSorted(sorted, node, j - 1)

RECURSIVE SortFrom(_, _)
SortFrom(h, i) ==
  IF i = 0 THEN <<>>
  ELSE LET sorted == SortFrom(h, i - 1) IN InsertSorted(sorted, h[i], Len(sorted))

\* heap.sort(comparator)
SortNodes(h) == SortFrom(h, Len(h))

(***************************************************************************)
(* rerankWithCategoryDiversity (app.js 346-393).  nodes[i].event is a      *)
(* reference into evs; used is the set of 0-based indices already chosen.  *)
(***************************************************************************)
RECURSIVE MaxCountFrom(_, _, _)
\* cats.reduce((m, c) => Math.max(m, catCounts.get(c) || 0), 0)
MaxCountFrom(cats, catCounts, j) ==
  IF j = 0 THEN 0
  ELSE Max(MaxCountFrom(cats, catCounts, j - 1), MapGet(catCounts, cats[j]))

\* Faulty variant of penaltyFor: the soft cap penalty is left out
penaltyFor_WithoutCap(ev, catCounts, alpha, perCategoryCap) ==
  LET cats == CategoriesOf(ev)
  IN IF Len(cats) = 0 THEN 0
     ELSE alpha * MaxCountFrom(cats, catCounts, Len(cats))

penaltyFor(ev, catCounts, alpha, perCategoryCap) ==
  LET cats == CategoriesOf(ev)
  IN IF Len(cats) = 0 THEN 0
     ELSE LET maxCount == MaxCountFrom(cats, catCounts, Len(cats))
              capPenalty == IF IsFinite(perCategoryCap) /\ maxCount >= perCategoryCap.v
                            THEN Scale \div 2 ELSE 0
          IN alpha * maxCount + capPenalty

RECURSIVE PickBest(_, _, _, _, _, _, _, _, _)
\* the inner loop of app.js 369-381; bestIdx = -1 stands for bestVal = -Infinity
PickBest(nodes, evs, used, catCounts, alpha, cap, i, bestIdx, bestVal) ==
  IF i >= Len(nodes) THEN bestIdx
  ELSE IF i \in used
       THEN PickBest(nodes, evs, used, catCounts, alpha, cap, i + 1, bestIdx, bestVal)
       ELSE LET node == nodes[i + 1]
                val == node.score - penaltyFor(evs[node.event], catCounts, alpha, cap)
            IN IF bestIdx = -1 \/ val > bestVal
               THEN PickBest(nodes, evs, used, catCounts, alpha, cap, i + 1, i, val)
               ELSE PickBest(nodes, evs, used, catCounts, alpha, cap, i + 1, bestIdx, bestVal)

\* Faulty variant of MarkUsed: the chosen index is not recorded
MarkUsed_Forgotten(used, bestIdx) == used

\* used[bestIdx] = true (app.js 383)
MarkUsed(used, bestIdx) == used \cup {bestIdx}

RECURSIVE RerankFrom(_, _, _, _, _, _, _, _)
\* the outer loop of app.js 365-390
RerankFrom(nodes, evs, alpha, cap, step, used, out, catCounts) ==
  IF step >= Len(nodes) THEN out
  ELSE LET bestIdx == PickBest(nodes, evs, used, catCounts, alpha, cap, 0, -1, 0)
           chosen == nodes[bestIdx + 1]
           cats == CategoriesOf(evs[chosen.event])
       IN RerankFrom(nodes, evs, alpha, cap, step + 1, MarkUsed(used, bestIdx),
                     Append(out, chosen), TallyCats(catCounts, cats, 1, 1))

rerankWithCategoryDiversity(nodes, evs, alpha, perCategoryCap) ==
  RerankFrom(nodes, evs, alpha, perCategoryCap, 0, {}, <<>>, EmptyMap)

(***************************************************************************)
(* The stages of one call, for an events array evs that passed app.js 209  *)
(***************************************************************************)
\* the heap when the scan has ended
FinalHeap(u, evs, sim, lim) ==
  Scan(Context(u, evs, sim), u, evs, TopK(lim, evs), Len(evs))

\* nodes: the pre-diversity ranking (app.js 318-323)
Ranking(u, evs, sim, lim) == SortNodes(FinalHeap(u, evs, sim, lim))

\* diversified (app.js 326-329)
Diversified(u, evs, sim, lim) ==
  LET nodes == Ranking(u, evs, sim, lim)
  IN IF CONFIG.diversity.enabled /\ Len(nodes) > 1
     THEN rerankWithCategoryDiversity(nodes, evs, CONFIG.diversity.alpha,
                                      CONFIG.diversity.perCategoryCap)
     ELSE nodes

\* app.js 209-333, limit given.  The returned array holds references to the
\* event records of the input: element i is the position of that record in
\* events.
RecommendWithLimit(u, evts, sim, lim) ==
  IF ~IsArray(evts) \/ Len(evts.a) = 0 \/ u.t # "object" \/ LimitNotPositive(lim)
  THEN Arr(<<>>)
  ELSE IF TopK(lim, evts.a) = 0 THEN Arr(<<>>)
  ELSE IF Len(FinalHeap(u, evts.a, sim, lim)) = 0 THEN Arr(<<>>)
  ELSE LET diversified == Diversified(u, evts.a, sim, lim)
       IN Arr([i \in 1..Len(diversified) |-> diversified[i].event])

\* Faulty variant of getRecommendedEvents: the default replaces every falsy limit
\* (limit || 5), so a limit of 0 becomes 5
getRecommendedEvents_FalsyLimitDefaults(u, evts, sim, lim) ==
  RecommendWithLimit(u, evts, sim,
                     IF lim.t = "undefined" \/ lim = Lim(0, 0)
                     THEN Lim(0, DefaultLimit) ELSE lim)

\* app.js 208: limit = 5 when the caller passes none
getRecommendedEvents(u, evts, sim, lim) ==
  RecommendWithLimit(u, evts, sim,
                     IF lim.t = "undefined" THEN Lim(0, DefaultLimit) ELSE lim)

(***************************************************************************)
(* Inputs                                                                  *)
(***************************************************************************)
P00 == Loc(Fin(0), Fin(0))
P090 == Loc(Fin(0), Fin(90))

\* Event records as a loader may hand them over: popularity outside [0,1],
\* a missing location, a latitude too large to convert to radians, an id
\* that occurs twice, and a record without id, categories or popularity.
Catalogue ==
  { [id |-> "c3", categories |-> Arr(<<"music">>), location |-> P00,
     popularity |-> Fin(5)],
    [id |-> "a1", categories |-> Arr(<<"music">>), location |-> P090,
     popularity |-> Fin(2)],
    [id |-> "B2", categories |-> Arr(<<"music">>), location |-> P090,
     popularity |-> Fin(2)],
    [id |-> "d4", categories |-> Arr(<<"art">>), location |-> Undefined,
     popularity |-> Fin(1)],
    [id |-> "d4", categories |-> Arr(<<"art", "music">>),
     location |-> Loc(Huge(1), Fin(0)), popularity |-> Fin(-1)],
    [id |-> "", categories |-> Undefined, location |-> Loc(NaN, Fin(0)),
     popularity |-> Undefined] }

RECURSIVE SeqsUpTo(_, _)
\* all sequences over S of length at most n
SeqsUpTo(S, n) ==
  IF n = 0 THEN {<<>>}
  ELSE LET shorter == SeqsUpTo(S, n - 1)
       IN shorter \cup {Append(q, x) : q \in shorter, x \in S}

\* events: an array of at most MaxEvents records, or not an array at all
EventInputs == {Arr(q) : q \in SeqsUpTo(Catalogue, MaxEvents)} \cup {Undefined}

Users ==
  {Undefined} \cup
  { [t |-> "object", id |-> "u1", location |-> l, preferences |-> Arr(p),
     attendedEvents |-> Arr(h)] :
      l \in {Undefined, P00},
      p \in {<<>>, <<"music", "art">>},
      h \in {<<>>, <<"a1", "c3">>} }

\* eventSimilarity: a map from event id to similar ids, or absent
SimIndex ==
  [t |-> "object",
   m |-> [x \in {"a1", "c3"} |->
            IF x = "a1" THEN Arr(<<"B2", "B2">>) ELSE Arr(<<"d4">>)]]
SimInputs == {SimIndex, Undefined}

\* limits: none given, -1 .. MaxLimit, and 2^31
Limits ==
  {Undefined, Lim(-1, 2147483647), Lim(1, 0)} \cup {Lim(0, n) : n \in 0..MaxLimit}

(***************************************************************************)
(* Specification: one call of getRecommendedEvents on any of the inputs    *)
(***************************************************************************)
Init ==
  /\ CONFIG = CONFIG_INIT
  /\ user \in Users
  /\ events \in EventInputs
  /\ eventSimilarity \in SimInputs
  /\ limit \in Limits
  /\ result = Undefined
  /\ pc = "ready"
  /\ point1 = Undefined
  /\ point2 = Undefined
  /\ distance = Undefined

RECURSIVE Reverse(_)
Reverse(q) == IF q = <<>> THEN <<>> ELSE Append(Reverse(Tail(q)), Head(q))

\* Faulty variant of Recommend: the call reorders the caller's events array in place
Recommend_ReordersEvents ==
  /\ pc = "ready"
  /\ result' = getRecommendedEvents(user, events, eventSimilarity, limit)
  /\ pc' = "returned"
  /\ events' = IF IsArray(events) THEN Arr(Reverse(events.a)) ELSE events
  /\ UNCHANGED <<CONFIG, user, eventSimilarity, limit, point1, point2, distance>>

\* one call of getRecommendedEvents: it assigns nothing but its return value
Recommend ==
  /\ pc = "ready"
  /\ result' = getRecommendedEvents(user, events, eventSimilarity, limit)
  /\ pc' = "returned"
  /\ UNCHANGED <<CONFIG, user, events, eventSimilarity, limit,
                 point1, point2, distance>>

Next == Recommend

Spec == Init /\ [][Next]_vars

(***************************************************************************)
(* Specification: one call of calculateDistance on any two points          *)
(***************************************************************************)
Latitudes ==
  {Undefined, NaN, Inf(1), Huge(1), Fin(0), Fin(90), Fin(-90), Fin(180)}
Longitudes == {Undefined, Huge(1), Huge(-1), Fin(0), Fin(90), Fin(180)}
PointInputs ==
  {Undefined, Null} \cup {Loc(la, ln) : la \in Latitudes, ln \in Longitudes}

InitDistance ==
  /\ CONFIG = CONFIG_INIT
  /\ user = Undefined
  /\ events = Undefined
  /\ eventSimilarity = Undefined
  /\ limit = Undefined
  /\ result = Undefined
  /\ pc = "ready"
  /\ point1 \in PointInputs
  /\ point2 \in PointInputs
  /\ distance = Undefined

Distance ==
  /\ pc = "ready"
  /\ distance' = calculateDistance(point1, point2)
  /\ pc' = "returned"
  /\ UNCHANGED <<CONFIG, user, events, eventSimilarity, limit, result,
                 point1, point2>>

NextDistance == Distance

SpecDistance == InitDistance /\ [][NextDistance]_vars

(***************************************************************************)
(* Specification: one call of getRecommendedEvents that ranks enough       *)
(* events of one category for the per-category cap to be reached           *)
(***************************************************************************)
\* Bound: the longest event collection of the diversity calls.
MaxRanked == 5

\* fully popular events of one category each, and an event of both
DiversityCatalogue ==
  { [id |-> "c3", categories |-> Arr(<<"music">>), location |-> P00,
     popularity |-> Fin(PopUnit)],
    [id |-> "d4", categories |-> Arr(<<"art">>), location |-> P00,
     popularity |-> Fin(PopUnit)],
    [id |-> "a1", categories |-> Arr(<<"art", "music">>), location |-> P090,
     popularity |-> Fin(2)] }

\* users without history, with and without preferences and location
DiversityUsers ==
  { [t |-> "object", id |-> "u1", location |-> l, preferences |-> Arr(p),
     attendedEvents |-> Arr(<<>>)] :
      l \in {Undefined, P00}, p \in {<<>>, <<"music", "art">>} }

InitDiversity ==
  /\ CONFIG = CONFIG_INIT
  /\ user \in DiversityUsers
  /\ events \in {Arr(q) : q \in SeqsUpTo(DiversityCatalogue, MaxRanked)}
  /\ eventSimilarity = Undefined
  /\ limit = Undefined
  /\ result = Undefined
  /\ pc = "ready"
  /\ point1 = Undefined
  /\ point2 = Undefined
  /\ distance = Undefined

SpecDiversity == InitDiversity /\ [][Next]_vars

(***************************************************************************)
(* Specification: one call of getRecommendedEvents on events whose         *)
(* identifiers are different strings that collate as equal                 *)
(***************************************************************************)
OrderCatalogue ==
  { [id |-> "cafe_nfc", categories |-> Arr(<<"music">>), location |-> P00,
     popularity |-> Fin(2)],
    [id |-> "cafe_nfd", categories |-> Arr(<<"music">>), location |-> P00,
     popularity |-> Fin(2)],
    [id |-> "d4", categories |-> Arr(<<"art">>), location |-> Undefined,
     popularity |-> Fin(1)] }

InitOrder ==
  /\ CONFIG = CONFIG_INIT
  /\ user \in DiversityUsers
  /\ events \in {Arr(q) : q \in SeqsUpTo(OrderCatalogue, Cardinality(OrderCatalogue))}
  /\ eventSimilarity = Undefined
  /\ limit \in {Undefined, Lim(0, 1), Lim(0, 2)}
  /\ result = Undefined
  /\ pc = "ready"
  /\ point1 = Undefined
  /\ point2 = Undefined
  /\ distance = Undefined

SpecOrder == InitOrder /\ [][Next]_vars

(***************************************************************************)
(* Vocabulary of the properties                                            *)
(***************************************************************************)
Returned == pc = "returned"
\* the call got an events array and a user object
ValidCall == IsArray(events) /\ user.t = "object"
\* the limit in force: the default when none was passed
EffLimit == IF limit.t = "undefined" THEN Lim(0, DefaultLimit) ELSE limit
\* the event record a returned reference points to
EvAt(ref) == events.a[ref]
Ctx == Context(user, events.a, eventSimilarity)
Attended == Range(user.attendedEvents.a)
\* event i has an identifier, was not attended, and is inside the geo cutoff
Eligible(i) ==
  /\ EvAt(i).id # ""
  /\ EvAt(i).id \notin Attended
  /\ ~CutOff(Ctx, user, EvAt(i))
EligibleRefs == {i \in 1..Len(events.a) : Eligible(i)}
\* min(limit, n) for a limit >= 0 of any magnitude and a small n
MinLimit(lim, n) == IF lim.hi >= 1 THEN n ELSE Min(lim.lo, n)
\* the combined score of the event a reference points to
ScoreOf(ref) == ScoreNode(Ctx, user, EvAt(ref), ref).score
RankingNow == Ranking(user, events.a, eventSimilarity, EffLimit)
HeapNow == FinalHeap(user, events.a, eventSimilarity, EffLimit)
KNow == TopK(EffLimit, events.a)
Count(q, x) == Cardinality({i \in 1..Len(q) : q[i] = x})
IsPermutation(p, q) ==
  /\ Len(p) = Len(q)
  /\ \A x \in Range(p) \cup Range(q) : Count(p, x) = Count(q, x)
IdsOf(q) == {q[i].id : i \in 1..Len(q)}
RefsOf(q) == [i \in 1..Len(q) |-> q[i].event]

(***************************************************************************)
(* C1.  No event returned by getRecommendedEvents has an identifier that   *)
(* is in user.attendedEvents.                                              *)
(***************************************************************************)
C1_NoAttendedEventReturned ==
  Returned =>
    \A i \in 1..Len(result.a) : EvAt(result.a[i]).id \notin Attended

\* a call that returned events although the collection held attended ones
C1_Witness ==
  /\ Returned /\ Len(result.a) >= 1
  /\ \E i \in 1..Len(events.a) : EvAt(i).id \in Attended

(***************************************************************************)
(* C2.  For a valid call with a non-negative integer limit of any          *)
(* magnitude, the returned list has min(limit, eligible count) elements.   *)
(* (Stated as claimed; the code does not satisfy it for limits >= 2^31.)   *)
(***************************************************************************)
C2_LengthIsMinOfLimitAndEligible ==
  (Returned /\ ValidCall /\ limit.t = "number" /\ limit.hi >= 0) =>
    Len(result.a) = MinLimit(limit, Cardinality(EligibleRefs))

C4_RerankIsPermutation ==
  (Returned /\ Len(result.a) >= 1) =>
    LET nodes == RankingNow
        out == rerankWithCategoryDiversity(nodes, events.a,
                                           CONFIG.diversity.alpha,
                                           CONFIG.diversity.perCategoryCap)
    IN /\ IsPermutation(nodes, out)
       /\ IsPermutation(RefsOf(nodes), result.a)
       /\ Len(nodes) > 1 => result.a = RefsOf(out)

\* a call whose re-rank changed the order of three survivors
C4_Witness ==
  /\ Returned /\ Len(result.a) >= 3
  /\ result.a # RefsOf(RankingNow)

(***************************************************************************)
(* C5.  The identifiers kept by the bounded heap scan are those of the     *)
(* first k candidates when all eligible candidates are sorted by the total *)
(* order (betterThan) and truncated to k.                                  *)
(***************************************************************************)
RECURSIVE CandidatesFrom(_, _)
\* the nodes of all events the scan does not skip, in scan order
CandidatesFrom(ctx, i) ==
  IF i = 0 THEN <<>>
  ELSE IF Skipped(ctx, user, EvAt(i)) THEN CandidatesFrom(ctx, i - 1)
       ELSE Append(CandidatesFrom(ctx, i - 1), ScoreNode(ctx, user, EvAt(i), i))
Candidates == LET ctx == Ctx IN CandidatesFrom(ctx, Len(events.a))

RECURSIVE InsertByBetter(_, _, _)
InsertByBetter(sorted, node, j) ==
  IF j = 0 \/ ~betterThan(node, sorted[j])
  THEN SubSeq(sorted, 1, j) \o <<node>> \o SubSeq(sorted, j + 1, Len(sorted))
  ELSE InsertByBetter(sorted, node, j - 1)
RECURSIVE FullSortFrom(_, _)
FullSortFrom(q, i) ==
  IF i = 0 THEN <<>>
  ELSE LET sorted == FullSortFrom(q, i - 1) IN InsertByBetter(sorted, q[i], Len(sorted))
\* sort everything, then truncate to k
SortThenTruncate(q, k) == SubSeq(FullSortFrom(q, Len(q)), 1, Min(k, Len(q)))

C5_HeapKeepsTopK ==
  (Returned /\ ValidCall /\ Len(events.a) > 0 /\ KNow >= 1) =>
    LET all == Candidates
    IN IdsOf(HeapNow) = IdsOf(SortThenTruncate(all, KNow))

\* a scan in which a later candidate displaced one of the first k
C5_Witness ==
  /\ Returned /\ ValidCall /\ Len(events.a) > 0 /\ KNow >= 1
  /\ Len(Candidates) > KNow
  /\ IdsOf(HeapNow) # IdsOf(SubSeq(Candidates, 1, KNow))
  /\ Len(result.a) = KNow

(***************************************************************************)
(* C6.  The result is the empty list (the call returns, it does not raise) *)
(* when the event collection is empty or not an array, or the limit is     *)
(* zero or negative.                                                       *)
(***************************************************************************)
C6_EmptyOnEmptyInvalidOrNonPositive ==
  (Returned /\ (\/ ~IsArray(events)
                \/ Len(events.a) = 0
                \/ (limit.t = "number" /\ LimitNotPositive(limit)))) =>
    result = Arr(<<>>)

\* a call with limit 0 on a collection that holds an eligible event
C6_Witness ==
  /\ Returned /\ ValidCall /\ limit = Lim(0, 0)
  /\ EligibleRefs # {}
  /\ result = Arr(<<>>)

(***************************************************************************)
(* C7.  Cold start: a user with no preferences and no history gets a       *)
(* non-empty list (for a positive limit) whenever a candidate event has a  *)
(* category of positive aggregate popularity.  (Stated as claimed; the     *)
(* code does not satisfy it for limits >= 2^31, see C2.)                   *)
(***************************************************************************)
ColdUser ==
  /\ user.t = "object"
  /\ user.preferences.a = <<>>
  /\ user.attendedEvents.a = <<>>
PopularCandidate ==
  \E i \in 1..Len(events.a) :
    /\ EvAt(i).id # ""
    /\ \E c \in Range(CategoriesOf(EvAt(i))) :
         MapGet(buildCategoryPopularityMap(events.a), c) > 0
C7_ColdStartNonEmpty ==
  (Returned /\ IsArray(events) /\ ColdUser /\ ~LimitNotPositive(EffLimit)
     /\ PopularCandidate) =>
    Len(result.a) > 0

(***************************************************************************)
(* C8.  A call leaves the user, the events array and its records, the      *)
(* similarity index and CONFIG unchanged, and every returned element is a  *)
(* reference to one of the records of the events array.                    *)
(***************************************************************************)
C8_CallChangesNoInput ==
  [][(pc = "ready" /\ pc' = "returned") =>
       /\ user' = user /\ events' = events
       /\ eventSimilarity' = eventSimilarity /\ CONFIG' = CONFIG
       /\ limit' = limit
       /\ \A i \in 1..Len(result'.a) :
            /\ result'.a[i] \in 1..Len(events.a)
            /\ events'.a[result'.a[i]] = events.a[result'.a[i]]]_vars

\* a call that returned two event references
C8_Witness == Returned /\ Len(result.a) >= 2

(***************************************************************************)
(* C10.  calculateDistance returns Infinity exactly when one of the points *)
(* lacks a finite numeric latitude or longitude; for two valid points it   *)
(* returns a finite value >= 0, and for two equal valid points exactly 0.  *)
(* (Stated as claimed; the code returns NaN when a finite latitude is so   *)
(* large that its conversion to radians overflows.)                        *)
(***************************************************************************)
FiniteNumber(x) == x.t = "number" /\ x.k \in {"fin", "huge"}
ValidPoint(p) == p.t = "object" /\ FiniteNumber(p.lat) /\ FiniteNumber(p.lng)
C10_DistanceContract ==
  Returned =>
    LET valid == ValidPoint(point1) /\ ValidPoint(point2)
    IN /\ (distance = Inf(1)) <=> ~valid
       /\ valid => (distance.k = "fin" /\ distance.v >= 0)
       /\ (valid /\ point1 = point2) => distance = Fin(0)

(***************************************************************************)
(* C11.  Signal activation and normalisation.  Preference match is active  *)
(* iff the user has preferences, content similarity iff the user has       *)
(* attended events, geo iff the user has a valid location, popularity      *)
(* always, cold start iff preference match and content similarity are both *)
(* inactive.  Every candidate's combined score is the sum of weight times  *)
(* value over the active signals divided by the sum of the active weights  *)
(* (1 when that sum is 0), and lies in [0,1].                              *)
(***************************************************************************)
\* the call got as far as the scan of app.js 252-313
Scanned ==
  /\ Returned /\ ValidCall /\ Len(events.a) > 0
  /\ ~LimitNotPositive(EffLimit) /\ KNow >= 1
\* the activation the user's data calls for
ActiveFor(u) ==
  LET pref == u.preferences.a # <<>>
      sim == u.attendedEvents.a # <<>>
  IN [pref |-> pref, sim |-> sim, geo |-> hasValidLocation(u.location),
      pop |-> TRUE, cold |-> ~pref /\ ~sim]
\* the value of each signal for event ev, in units of 1/Scale
ValuesOf(ctx, ev) ==
  [pref |-> PrefScore(ctx, ev),
   sim |-> SimScore(ctx, ev),
   geo |-> GeoScore(ctx, user, ev),
   pop |-> PopularityOf(ev) * (Scale \div PopUnit),
   cold |-> ColdScore(ctx, ev)]
\* weight of signal s if it is in the set on, else 0
WeightIf(on, s) == IF on[s] THEN CONFIG.weights[s] ELSE 0
WeightedSum(on, val) ==
    WeightIf(on, "pref") * val.pref + WeightIf(on, "sim") * val.sim
  + WeightIf(on, "geo") * val.geo + WeightIf(on, "pop") * val.pop
  + WeightIf(on, "cold") * val.cold
WeightTotal(on) ==
  LET sum == WeightIf(on, "pref") + WeightIf(on, "sim") + WeightIf(on, "geo")
             + WeightIf(on, "pop") + WeightIf(on, "cold")
  IN IF sum = 0 THEN WeightUnit ELSE sum
C11_ActivationAndNormalisation ==
  Scanned =>
    LET ctx == Ctx
        on == ActiveFor(user)
        total == WeightTotal(on)
    IN /\ ctx.active = on
       /\ ctx.weightSum = total
       /\ \A i \in 1..Len(events.a) :
            ~Skipped(ctx, user, EvAt(i)) =>
              LET val == ValuesOf(ctx, EvAt(i))
                  score == ScoreNode(ctx, user, EvAt(i), i).score
              IN /\ \A s \in DOMAIN val : val[s] \in 0..Scale
                 /\ score = WeightedSum(on, val) \div total
                 /\ score \in 0..Scale

\* a user with preferences and a location but no history got an event whose
\* score is strictly between 0 and 1
C11_Witness ==
  /\ Returned /\ ValidCall
  /\ ActiveFor(user) = [pref |-> TRUE, sim |-> FALSE, geo |-> TRUE,
                         pop |-> TRUE, cold |-> FALSE]
  /\ \E j \in 1..Len(result.a) :
       ScoreOf(result.a[j]) > 0 /\ ScoreOf(result.a[j]) < Scale

(***************************************************************************)
(* C12 as claimed.  When the user's or the event's location is missing the *)
(* geo signal is inactive for that candidate: its score is the weighted    *)
(* sum over the other active signals divided by the sum of the other       *)
(* active weights, the geo weight being in neither.  (The code keeps the   *)
(* geo weight in the divisor whenever the user has a location.)            *)
(***************************************************************************)
\* the activation of the user with the geo signal taken out
WithoutGeo(u) == [ActiveFor(u) EXCEPT !.geo = FALSE]
LocationMissing(ev) ==
  ~hasValidLocation(user.location) \/ ~hasValidLocation(ev.location)
C13_HeapInvariantDuringScan ==
  Scanned =>
    LET ctx == Ctx
        k == KNow
        evs == events.a
    IN /\ k = MinLimit(EffLimit, Len(evs))
       /\ \A i \in 1..Len(evs) :
            LET prev == Scan(ctx, user, evs, k, i - 1)
                heap == Scan(ctx, user, evs, k, i)
                node == ScoreNode(ctx, user, evs[i], i)
            IN /\ Len(heap) <= k
               /\ \A j \in 1..Len(heap) : ~heapLess(heap[j], heap[1])
               /\ IF Skipped(ctx, user, evs[i]) THEN heap = prev
                  ELSE IF Len(prev) < k
                       THEN IsPermutation(heap, Append(prev, node))
                  ELSE IF betterThan(node, prev[1])
                       THEN IsPermutation(heap, <<node>> \o Tail(prev))
                  ELSE heap = prev

\* a candidate replaced the root of a full heap of two or more nodes and was
\* sifted down below another node
C13_Witness ==
  /\ Scanned /\ KNow >= 2
  /\ \E i \in 1..Len(events.a) :
       LET prev == Scan(Ctx, user, events.a, KNow, i - 1)
           heap == Scan(Ctx, user, events.a, KNow, i)
           node == ScoreNode(Ctx, user, EvAt(i), i)
       IN /\ ~Skipped(Ctx, user, EvAt(i))
          /\ Len(prev) = KNow
          /\ betterThan(node, prev[1])
          /\ heap[1] # node

\* a candidate equal to the root of a full heap was offered and left out
C13_WitnessEqual ==
  /\ Scanned
  /\ \E i \in 1..Len(events.a) :
       LET prev == Scan(Ctx, user, events.a, KNow, i - 1)
           node == ScoreNode(Ctx, user, EvAt(i), i)
       IN /\ ~Skipped(Ctx, user, EvAt(i))
          /\ Len(prev) = KNow
          /\ ~betterThan(node, prev[1]) /\ ~betterThan(prev[1], node)

(***************************************************************************)
(* C14.  The pre-diversity ranking is sorted by the total order the heap   *)
(* uses (score descending, distance ascending with Infinity last,          *)
(* popularity descending, identifier ascending): of two survivors the one  *)
(* ranked later is never betterThan the one ranked earlier, and heapLess   *)
(* is betterThan with its arguments exchanged.  (Stated as claimed; the    *)
(* final sort breaks ties with localeCompare, the heap with < on strings.) *)
(***************************************************************************)
C14_RankingFollowsHeapOrder ==
  (Returned /\ Len(result.a) >= 1) =>
    LET nodes == RankingNow
    IN \A i, j \in 1..Len(nodes) :
         i < j =>
           /\ ~betterThan(nodes[j], nodes[i])
           /\ heapLess(nodes[i], nodes[j]) <=> betterThan(nodes[j], nodes[i])

(***************************************************************************)
(* C15.  Greedy diversity step.  At every position of the returned list    *)
(* the event chosen is, among the survivors not chosen before, one that    *)
(* maximises score - penalty, where penalty = alpha * m + (0.5 if m >=      *)
(* perCategoryCap else 0), m being the greatest number of already chosen   *)
(* survivors carrying one of the candidate's categories (penalty 0 for a   *)
(* candidate without categories); among candidates of equal maximal value  *)
(* the earliest in the pre-diversity ranking is chosen.                    *)
(***************************************************************************)
SetMax(S) == IF S = {} THEN 0 ELSE CHOOSE x \in S : \A y \in S : y <= x
CategorySetOf(ref) == Range(CategoriesOf(EvAt(ref)))
\* how many of the chosen survivors carry category c
Carrying(chosen, c) == Cardinality({r \in chosen : c \in CategorySetOf(r)})
\* m for the candidate ref when the survivors in chosen are already selected
RepeatCount(ref, chosen) ==
  SetMax({Carrying(chosen, c) : c \in CategorySetOf(ref)})
\* alpha * m, the penalty without the cap term
RepeatPenalty(ref, chosen) == CONFIG.diversity.alpha * RepeatCount(ref, chosen)
DiversityPenalty(ref, chosen) ==
  IF CategorySetOf(ref) = {} THEN 0
  ELSE RepeatPenalty(ref, chosen)
       + (IF RepeatCount(ref, chosen) >= CONFIG.diversity.perCategoryCap.v
          THEN Scale \div 2 ELSE 0)
C15_GreedyDiversityStep ==
  (Returned /\ Len(result.a) > 1 /\ CONFIG.diversity.enabled) =>
    LET nodes == RankingNow
        out == result.a
        pos(ref) == CHOOSE j \in 1..Len(nodes) : nodes[j].event = ref
    IN \A s \in 1..Len(out) :
         LET chosen == {out[t] : t \in 1..(s - 1)}
             rest == {j \in 1..Len(nodes) : nodes[j].event \notin chosen}
             val(j) == nodes[j].score - DiversityPenalty(nodes[j].event, chosen)
             best == pos(out[s])
         IN /\ best \in rest
            /\ \A j \in rest :
                 /\ val(j) <= val(best)
                 /\ val(j) = val(best) => best <= j

\* at some position a survivor that had reached the cap was passed over for
\* one it would have beaten with the penalty alpha * m alone
C15_Witness ==
  /\ Returned /\ Len(result.a) > 1
  /\ \E s \in 1..Len(result.a) :
       LET chosen == {result.a[t] : t \in 1..(s - 1)}
           later == {result.a[t] : t \in (s + 1)..Len(result.a)}
       IN \E r \in later :
            /\ RepeatCount(r, chosen) >= CONFIG.diversity.perCategoryCap.v
            /\ ScoreOf(r) - RepeatPenalty(r, chosen)
                 > ScoreOf(result.a[s]) - DiversityPenalty(result.a[s], chosen)

(***************************************************************************)
(* C16.  Content similarity.  For a user with history the similarity count *)
(* of a candidate is the number of the user's attended events whose        *)
(* similarity entry references the candidate, each attended event counted  *)
(* at most once, and the content-similarity signal is                      *)
(* min(1, count / number of attended events), in [0,1].  (Stated as        *)
(* claimed; the code counts every occurrence of the candidate in an        *)
(* entry.)                                                                 *)
(***************************************************************************)
\* the ids the similarity entry of the attended event eid references
ReferencedBy(eid) ==
  IF eventSimilarity.t = "object" /\ eid \in DOMAIN eventSimilarity.m
     /\ IsArray(eventSimilarity.m[eid])
  THEN Range(eventSimilarity.m[eid].a)
  ELSE {}
\* the number of attended events whose entry references the candidate id
ReferringAttended(id) ==
  Cardinality({j \in 1..Len(user.attendedEvents.a) :
                 id \in ReferencedBy(user.attendedEvents.a[j])})
C16_SimilarityCountsAttendedEvents ==
  (Scanned /\ user.attendedEvents.a # <<>>) =>
    LET ctx == Ctx
    IN \A i \in 1..Len(events.a) :
         ~Skipped(ctx, user, EvAt(i)) =>
           LET count == ReferringAttended(EvAt(i).id)
           IN /\ MapGet(ctx.similarCounts, EvAt(i).id) = count
              /\ SimScore(ctx, EvAt(i))
                   = Min(Scale, (count * Scale) \div Len(user.attendedEvents.a))
              /\ SimScore(ctx, EvAt(i)) \in 0..Scale

(***************************************************************************)
(* C17.  Input-order independence.  When all event identifiers are         *)
(* distinct, getRecommendedEvents returns the same sequence of event       *)
(* records for every permutation of the events array.  (Stated as          *)
(* claimed; the final sort leaves two events in heap-array order when      *)
(* localeCompare finds their identifiers equal.)                           *)
(***************************************************************************)
\* the bijections of 1..n
Bijections(n) ==
  {p \in [1..n -> 1..n] : \A i, j \in 1..n : p[i] = p[j] => i = j}
\* the arrays that hold the elements of q in another order
PermutationsOf(q) == {[i \in 1..Len(q) |-> q[p[i]]] : p \in Bijections(Len(q))}
\* the event records a call on the array q returns, in order
RecordsReturned(q) ==
  LET out == getRecommendedEvents(user, Arr(q), eventSimilarity, limit).a
  IN [i \in 1..Len(out) |-> q[out[i]]]
DistinctIds ==
  \A i, j \in 1..Len(events.a) : EvAt(i).id = EvAt(j).id => i = j
C17_OutputIndependentOfInputOrder ==
  (Returned /\ ValidCall /\ DistinctIds) =>
    \A q \in PermutationsOf(events.a) :
      RecordsReturned(q) = [i \in 1..Len(result.a) |-> EvAt(result.a[i])]

====
